---------------------------- MODULE Spec2Model ----------------------------
(***************************************************************************)
(* VectorStore of foundryvtt-aide (src/src/document/vector_store.js, the   *)
(* EmbeddingDocument revision at lines 224-413): an insertion-ordered Map  *)
(* from document id to a list of vectors, a remembered dimension, and one  *)
(* localStorage slot written by flushes queued with queueMicrotask; and    *)
(* the chunker and the store management of DocumentManager                 *)
(* (src/src/document/manager.js).                                          *)
(*                                                                         *)
(*   Spec        the store under add, addBatch, delete, clear, flushes     *)
(*               and reconstruction                                        *)
(*   SearchSpec  the store under add, findSimilar, size and stats          *)
(*   ChunkSpec   one call of calculateChunks, step by step                 *)
(*   ManagerSpec a manager that rebuilds, updates and deletes on the store *)
(*                                                                         *)
(* JavaScript values are modelled as records so that values of different   *)
(* JavaScript types stay comparable:                                       *)
(*   element  [t, finite, v]     t is the typeof of the element            *)
(*   vector   [isArray, elems]   what Array.isArray answers, the elements  *)
(*   Map      sequence of [id, vectors] in insertion order                 *)
(*   slot     [kind, hasVersion, formatVersion, hasEntries, entries]       *)
(*                                                                         *)
(* last describes the most recent call of the caller's current synchronous *)
(* run: what the caller saw (whether it threw, the error and the id its    *)
(* message names) and how the store after the call compares with the store *)
(* before it.  It is forgotten when the run returns.                       *)
(***************************************************************************)
EXTENDS Integers, Sequences, FiniteSets, TLC

VARIABLES cache, dimension, slot, pending, caller, log, last,
          pc, content, options, tokens, loopI, chunks,
          journal, mgr, calls

\* the store, its slot and its caller
storeVars == <<cache, dimension, slot, pending, caller, log, last>>

\* one call of DocumentManager.calculateChunks
chunkVars == <<pc, content, options, tokens, loopI, chunks>>

\* a DocumentManager over the store: the journal of the game, the
\* operation in progress, and the calls it has made to the embedding
\* client and to the store
managerVars == <<journal, mgr, calls>>

vars == <<cache, dimension, slot, pending, caller, log, last,
          pc, content, options, tokens, loopI, chunks,
          journal, mgr, calls>>

---------------------------------------------------------------------------
(* Bounds of the model *)

\* most flushes that may sit in the microtask queue at once
MaxPending == 2

\* most documents in one addBatch call
MaxBatch == 2

\* most characters of a chunked text
MaxTextLen == 5

\* largest ChunkSize option
MaxChunkSize == 3

---------------------------------------------------------------------------
(* Program constants *)

STORAGE_FORMAT_VERSION == 1

---------------------------------------------------------------------------
(* JavaScript values used as inputs *)

Num(n) == [t |-> "number", finite |-> TRUE, v |-> n]

\* NaN: typeof NaN === 'number', and JSON.stringify writes it as null
NaNValue == [t |-> "number", finite |-> FALSE, v |-> 0]

Str == [t |-> "string", finite |-> FALSE, v |-> 0]

Null == [t |-> "object", finite |-> FALSE, v |-> 0]

Arr(elems) == [isArray |-> TRUE, elems |-> elems]

\* a value that is not an array where a vector is expected
NotArray == [isArray |-> FALSE, elems |-> <<>>]

VecA == Arr(<<Num(1)>>)

VecN == Arr(<<NaNValue>>)

VecB == Arr(<<Num(1), Num(2)>>)

VecS == Arr(<<Num(1), Str>>)

Ids == {"doc1", "doc2"}

Doc(id, vectors) == [id |-> id, vectors |-> vectors]

\* the documents add is called with: valid ones of dimension 1 and 2, one
\* with a NaN, one with no vector, and ones whose second or only vector
\* is invalid
Documents ==
  { Doc("doc1", <<VecA>>), Doc("doc1", <<VecA, VecN>>),
    Doc("doc1", <<VecA, VecS>>), Doc("doc1", <<VecA, VecB>>),
    Doc("doc1", <<NotArray>>),
    Doc("doc2", <<VecA>>), Doc("doc2", <<VecB>>), Doc("doc2", <<>>) }

\* the documents addBatch is called with
BatchDocuments ==
  { Doc("doc1", <<VecA>>), Doc("doc2", <<VecA>>), Doc("doc2", <<VecB>>),
    Doc("doc2", <<NotArray>>) }

Batches == UNION { [1..n -> BatchDocuments] : n \in 0..MaxBatch }

---------------------------------------------------------------------------
(* Map: the insertion-ordered #cache *)

EmptyMap == <<>>

MapKeys(m) == { m[i].id : i \in 1..Len(m) }

MapHas(m, id) == id \in MapKeys(m)

MapIndex(m, id) == CHOOSE i \in 1..Len(m) : m[i].id = id

MapGet(m, id) == m[MapIndex(m, id)].vectors

\* MapSet with a slip: the entry is appended even when the key exists
MapSet_append(m, id, vectors) ==
  Append(m, [id |-> id, vectors |-> vectors])

\* Map.prototype.set: an existing key keeps its position, a new key is
\* appended
MapSet(m, id, vectors) ==
  IF MapHas(m, id)
    THEN [m EXCEPT ![MapIndex(m, id)] = [id |-> id, vectors |-> vectors]]
    ELSE Append(m, [id |-> id, vectors |-> vectors])

\* Map.prototype.delete
MapDelete(m, id) ==
  IF MapHas(m, id)
    THEN SubSeq(m, 1, MapIndex(m, id) - 1)
           \o SubSeq(m, MapIndex(m, id) + 1, Len(m))
    ELSE m

size(m) == Len(m)

---------------------------------------------------------------------------
(* #validateVector and the forEach loops over it *)

NoError == [kind |-> "none", id |-> ""]

isNumberArray(vector) ==
  /\ vector.isArray
  /\ \A i \in 1..Len(vector.elems) : vector.elems[i].t = "number"

\* validateVector with a slip: the remembered dimension follows the vector
\* at hand instead of being compared with it
validateVector_relock(vector, id, dim) ==
  IF ~isNumberArray(vector)
    THEN [threw |-> TRUE, error |-> [kind |-> "type", id |-> id],
          dimension |-> dim]
    ELSE [threw |-> FALSE, error |-> NoError,
          dimension |-> Len(vector.elems)]

\* the outcome of one #validateVector call started with #dimension = dim:
\* whether it threw, the error (its message names id), and #dimension
\* after the call
validateVector(vector, id, dim) ==
  IF ~isNumberArray(vector)
    THEN [threw |-> TRUE, error |-> [kind |-> "type", id |-> id],
          dimension |-> dim]
  ELSE IF dim = 0
    THEN [threw |-> FALSE, error |-> NoError,
          dimension |-> Len(vector.elems)]
  ELSE IF Len(vector.elems) # dim
    THEN [threw |-> TRUE, error |-> [kind |-> "dimension", id |-> id],
          dimension |-> dim]
  ELSE [threw |-> FALSE, error |-> NoError, dimension |-> dim]

RECURSIVE validateVectors(_, _, _)
\* vectors.forEach(vector => this.#validateVector(vector, id)): stops at
\* the first vector that throws
validateVectors(vectors, id, dim) ==
  IF vectors = <<>>
    THEN [threw |-> FALSE, error |-> NoError, dimension |-> dim]
    ELSE LET r == validateVector(Head(vectors), id, dim)
         IN IF r.threw THEN r
            ELSE validateVectors(Tail(vectors), id, r.dimension)

RECURSIVE validateDocuments(_, _)
\* documents.forEach(({id, vectors}) => vectors.forEach(...))
validateDocuments(documents, dim) ==
  IF documents = <<>>
    THEN [threw |-> FALSE, error |-> NoError, dimension |-> dim]
    ELSE LET r == validateVectors(Head(documents).vectors,
                                  Head(documents).id, dim)
         IN IF r.threw THEN r
            ELSE validateDocuments(Tail(documents), r.dimension)

RECURSIVE setAll(_, _)
\* documents.forEach(({id, vectors}) => this.#cache.set(id, vectors))
setAll(m, documents) ==
  IF documents = <<>> THEN m
  ELSE setAll(MapSet(m, Head(documents).id, Head(documents).vectors),
              Tail(documents))

---------------------------------------------------------------------------
(* The mutating methods as functions of (#cache, #dimension); scheduled   *)
(* is the number of queueMicrotask calls the method made                  *)

\* add with a slip: #cache.set runs before the validation loop
add_setFirst(c, dim, document) ==
  LET r == validateVectors(document.vectors, document.id, dim)
  IN [cache |-> MapSet(c, document.id, document.vectors),
      dimension |-> r.dimension, threw |-> r.threw, error |-> r.error,
      scheduled |-> IF r.threw THEN 0 ELSE 1]

add(c, dim, document) ==
  LET r == validateVectors(document.vectors, document.id, dim)
  IN IF r.threw
       THEN [cache |-> c, dimension |-> r.dimension, threw |-> TRUE,
             error |-> r.error, scheduled |-> 0]
       ELSE [cache |-> MapSet(c, document.id, document.vectors),
             dimension |-> r.dimension, threw |-> FALSE,
             error |-> NoError, scheduled |-> 1]

RECURSIVE addEach(_, _, _)
\* one loop that validates and sets document by document
addEach(c, dim, documents) ==
  IF documents = <<>>
    THEN [cache |-> c, dimension |-> dim, threw |-> FALSE,
          error |-> NoError, scheduled |-> 1]
    ELSE LET r == validateVectors(Head(documents).vectors,
                                  Head(documents).id, dim)
         IN IF r.threw
              THEN [cache |-> c, dimension |-> r.dimension, threw |-> TRUE,
                    error |-> r.error, scheduled |-> 0]
              ELSE addEach(MapSet(c, Head(documents).id,
                                  Head(documents).vectors),
                           r.dimension, Tail(documents))

\* addBatch with a slip: no separate validation pass
addBatch_perDocument(c, dim, documents) == addEach(c, dim, documents)

addBatch(c, dim, documents) ==
  LET r == validateDocuments(documents, dim)
  IN IF r.threw
       THEN [cache |-> c, dimension |-> r.dimension, threw |-> TRUE,
             error |-> r.error, scheduled |-> 0]
       ELSE [cache |-> setAll(c, documents),
             dimension |-> r.dimension, threw |-> FALSE,
             error |-> NoError, scheduled |-> 1]

\* clear with a slip: the flush is not queued
clear_noFlush(c, dim) ==
  [cache |-> EmptyMap, dimension |-> dim, threw |-> FALSE,
   error |-> NoError, scheduled |-> 0]

clear(c, dim) ==
  [cache |-> EmptyMap, dimension |-> dim, threw |-> FALSE,
   error |-> NoError, scheduled |-> 1]

\* delete(id): the method the tests and DocumentManager call
delete(c, dim, id) ==
  [cache |-> MapDelete(c, id), dimension |-> dim, threw |-> FALSE,
   error |-> NoError, scheduled |-> 1]

---------------------------------------------------------------------------
(* The persisted slot *)

Absent ==
  [kind |-> "absent", hasVersion |-> FALSE, formatVersion |-> 0,
   hasEntries |-> FALSE, entries |-> EmptyMap]

Malformed ==
  [kind |-> "malformed", hasVersion |-> FALSE, formatVersion |-> 0,
   hasEntries |-> FALSE, entries |-> EmptyMap]

Record(version, entries) ==
  [kind |-> "json", hasVersion |-> TRUE, formatVersion |-> version,
   hasEntries |-> TRUE, entries |-> entries]

\* '{}': what getItem(...) || '{}' yields for an absent slot
EmptyObject ==
  [kind |-> "json", hasVersion |-> FALSE, formatVersion |-> 0,
   hasEntries |-> FALSE, entries |-> EmptyMap]

NoEntries ==
  [kind |-> "json", hasVersion |-> TRUE,
   formatVersion |-> STORAGE_FORMAT_VERSION,
   hasEntries |-> FALSE, entries |-> EmptyMap]

\* JSON.stringify of one element: a non-finite number is written as null
stringifyElement(e) ==
  IF e.t = "number" /\ ~e.finite THEN Null ELSE e

stringifyVector(vector) ==
  [isArray |-> vector.isArray,
   elems |-> [i \in 1..Len(vector.elems) |->
                stringifyElement(vector.elems[i])]]

stringifyVectors(vectors) ==
  [i \in 1..Len(vectors) |-> stringifyVector(vectors[i])]

\* JSON.stringify({formatVersion, entries: Object.fromEntries(cache)})
stringify(c) ==
  Record(STORAGE_FORMAT_VERSION,
         [i \in 1..Len(c) |->
            [id |-> c[i].id, vectors |-> stringifyVectors(c[i].vectors)]])

\* saveToStorage with a slip: the entries of the record found in the slot
\* are kept and the mapping is written over them
saveToStorage_merge(c, s) ==
  LET kept == IF s.kind = "json" /\ s.hasEntries
                THEN SelectSeq(s.entries, LAMBDA e : ~MapHas(c, e.id))
                ELSE EmptyMap
  IN Record(STORAGE_FORMAT_VERSION, kept \o stringify(c).entries)

\* saveToStorage with a slip: a record that holds entries is not written
\* over
saveToStorage_once(c, s) ==
  IF s.kind = "json" /\ s.hasEntries /\ s.entries # EmptyMap
    THEN s
    ELSE stringify(c)

\* #saveToStorage without a storage fault: the slot it leaves, given the
\* mapping c and the slot s it finds (setItem replaces the whole value)
saveToStorage(c, s) == stringify(c)

\* loadFromStorage with a slip: entries that are missing are taken as no
\* entries, without a report
loadFromStorage_silent(s) ==
  LET stored == IF s.kind = "absent" THEN EmptyObject ELSE s
      mismatch == /\ stored.kind = "json"
                  /\ stored.hasVersion
                  /\ stored.formatVersion # STORAGE_FORMAT_VERSION
      debug == IF mismatch THEN {"found vector version mismatch"} ELSE {}
  IN IF stored.kind = "malformed"
       THEN [cache |-> EmptyMap,
             log |-> {"error loading vectors from storage"}]
     ELSE IF ~stored.hasEntries
       THEN [cache |-> EmptyMap, log |-> debug]
     ELSE [cache |-> stored.entries, log |-> debug]

\* #loadFromStorage: the #cache it leaves and what it sends to the logger
loadFromStorage(s) ==
  LET stored == IF s.kind = "absent" THEN EmptyObject ELSE s
      mismatch == /\ stored.kind = "json"
                  /\ stored.hasVersion
                  /\ stored.formatVersion # STORAGE_FORMAT_VERSION
      debug == IF mismatch THEN {"found vector version mismatch"} ELSE {}
  IN IF stored.kind = "malformed"
       THEN [cache |-> EmptyMap,
             log |-> {"error loading vectors from storage"}]
     ELSE IF ~stored.hasEntries
       THEN [cache |-> EmptyMap,
             log |-> debug \cup {"error loading vectors from storage"}]
     ELSE [cache |-> stored.entries, log |-> debug]

\* the slot contents a store may be constructed against at start
InitialSlots ==
  { Absent, Malformed, NoEntries,
    Record(STORAGE_FORMAT_VERSION, EmptyMap),
    Record(STORAGE_FORMAT_VERSION, <<Doc("doc1", <<VecA>>)>>),
    Record(2, <<Doc("doc1", <<VecB>>)>>) }

---------------------------------------------------------------------------
(* Vocabulary for describing a call *)

\* the vectors of a list, as a set
VectorsOf(vectors) == { vectors[i] : i \in 1..Len(vectors) }

DocumentsOf(documents) == { documents[i] : i \in 1..Len(documents) }

\* an array whose length is not d
WrongLength(vector, d) == vector.isArray /\ Len(vector.elems) # d

\* some vector of the document is an array whose length is not d
HasWrongLength(document, d) ==
  \E vector \in VectorsOf(document.vectors) : WrongLength(vector, d)

\* a document that cannot pass validation in a store whose dimension is d
\* (0: not fixed yet): a vector that is not an array of numbers, a vector
\* whose length is not d, or two vectors of different lengths
InvalidDocument(document, d) ==
  \/ \E vector \in VectorsOf(document.vectors) : ~isNumberArray(vector)
  \/ d # 0 /\ HasWrongLength(document, d)
  \/ \E v \in VectorsOf(document.vectors) :
       v.isArray /\ HasWrongLength(document, Len(v.elems))

InvalidBatch(documents, d) ==
  \/ \E document \in DocumentsOf(documents) : InvalidDocument(document, d)
  \/ \E x, y \in DocumentsOf(documents) :
       \E v \in VectorsOf(x.vectors) :
         v.isArray /\ HasWrongLength(y, Len(v.elems))

\* id maps to the same thing (or to nothing) in both mappings
SameEntry(m, n, id) ==
  /\ MapHas(m, id) <=> MapHas(n, id)
  /\ MapHas(m, id) => MapGet(m, id) = MapGet(n, id)

\* the mapping m holds exactly vectors under id
Holds(m, id, vectors) == MapHas(m, id) /\ MapGet(m, id) = vectors

---------------------------------------------------------------------------
(* Numbers of the similarity search.  The vectors searched here have      *)
(* integer elements and an integer norm and all have the same length, so  *)
(* that every similarity and every score is a rational number; scores are *)
(* kept as fractions in lowest terms and IEEE rounding is not modelled.   *)

Abs(n) == IF n < 0 THEN -n ELSE n

RECURSIVE GCD(_, _)
GCD(a, b) == IF b = 0 THEN a ELSE GCD(b, a % b)

\* the number n / d (d > 0)
Rat(n, d) ==
  LET g == GCD(Abs(n), d) IN [n |-> n \div g, d |-> d \div g]

RatAdd(a, b) == Rat(a.n * b.d + b.n * a.d, a.d * b.d)

RatSub(a, b) == Rat(a.n * b.d - b.n * a.d, a.d * b.d)

RatMul(a, b) == Rat(a.n * b.n, a.d * b.d)

\* a / k for a count k > 0
RatDiv(a, k) == Rat(a.n, a.d * k)

RatLess(a, b) == a.n * b.d < b.n * a.d

\* Math.sqrt on a perfect square
Sqrt(n) == CHOOSE k \in 0..n : k * k = n

\* constructor(logger, lookups = 3, maxWeight = 0.7)
DefaultLookups == 3

DefaultMaxWeight == Rat(7, 10)

VecX == Arr(<<Num(1), Num(0), Num(0)>>)

VecY == Arr(<<Num(0), Num(1), Num(0)>>)

VecZ == Arr(<<Num(0), Num(0), Num(1)>>)

VecP == Arr(<<Num(1), Num(2), Num(2)>>)

VecQ == Arr(<<Num(2), Num(2), Num(1)>>)

VecR == Arr(<<Num(2), Num(1), Num(2)>>)

\* the documents added to a store that is searched: one and two chunks,
\* equal vector lists under two ids, and a document without vectors
SearchDocuments ==
  { Doc("doc1", <<VecX>>), Doc("doc1", <<VecX, VecY>>),
    Doc("doc2", <<VecX>>), Doc("doc2", <<VecQ, VecR>>),
    Doc("doc3", <<VecP>>), Doc("doc3", <<>>) }

Queries == {VecX, VecZ, VecP}

QueryLists == {<<VecX>>, <<VecX, VecY>>, <<VecP, VecZ>>}

Lookups == 1..DefaultLookups

MaxWeights == {DefaultMaxWeight, Rat(3, 10)}

---------------------------------------------------------------------------
(* findSimilar *)

\* vecA.reduce((sum, a, i) => sum + a * vecB[i], 0) up to index k
RECURSIVE dotProduct(_, _, _)
dotProduct(vecA, vecB, k) ==
  IF k = 0 THEN 0
  ELSE dotProduct(vecA, vecB, k - 1) + vecA.elems[k].v * vecB.elems[k].v

\* Math.sqrt(vec.reduce((sum, a) => sum + a * a, 0))
norm(vec) == Sqrt(dotProduct(vec, vec, Len(vec.elems)))

cosineSimilarity(vecA, vecB) ==
  Rat(dotProduct(vecA, vecB, Len(vecA.elems)), norm(vecA) * norm(vecB))

\* vectors.map(vector => ({similarity: cosineSimilarity(queryVector, vector)}))
similarities(queryVector, vectors) ==
  [i \in 1..Len(vectors) |-> cosineSimilarity(queryVector, vectors[i])]

\* similarities.reduce((max, curr) => curr.similarity > max.similarity ?
\* curr : max) over the first k > 0 elements: no initial value, the first
\* element starts the fold
RECURSIVE maxSim(_, _)
maxSim(sims, k) ==
  IF k = 1 THEN sims[1]
  ELSE LET max == maxSim(sims, k - 1)
       IN IF RatLess(max, sims[k]) THEN sims[k] ELSE max

\* similarities.reduce((sum, curr) => sum + curr.similarity, 0)
RECURSIVE sumSim(_, _)
sumSim(sims, k) ==
  IF k = 0 THEN Rat(0, 1) ELSE RatAdd(sumSim(sims, k - 1), sims[k])

avgSim(sims) == RatDiv(sumSim(sims, Len(sims)), Len(sims))

\* documentScore with a slip: the two weights are exchanged
documentScore_swapped(queryVector, vectors, maxWeight) ==
  LET sims == similarities(queryVector, vectors)
      avgWeight == RatSub(Rat(1, 1), maxWeight)
  IN RatAdd(RatMul(maxSim(sims, Len(sims)), avgWeight),
            RatMul(avgSim(sims), maxWeight))

\* (maxSim.similarity * this.maxWeight) + (avgSim * avgWeight) for a
\* document with at least one vector
documentScore(queryVector, vectors, maxWeight) ==
  LET sims == similarities(queryVector, vectors)
      avgWeight == RatSub(Rat(1, 1), maxWeight)
  IN RatAdd(RatMul(maxSim(sims, Len(sims)), maxWeight),
            RatMul(avgSim(sims), avgWeight))

\* Array.from(this.#cache.entries()).map(([id, vectors]) => ({id, score}))
scores(c, queryVector, maxWeight) ==
  [i \in 1..Len(c) |->
     [id |-> c[i].id,
      score |-> documentScore(queryVector, c[i].vectors, maxWeight)]]

\* insert with a slip: x goes before the elements of its own score
insert_unstable(sorted, x) ==
  LET p == CHOOSE i \in 1..(Len(sorted) + 1) :
             /\ i = Len(sorted) + 1 \/ ~RatLess(x.score, sorted[i].score)
             /\ \A j \in 1..(i - 1) : RatLess(x.score, sorted[j].score)
  IN SubSeq(sorted, 1, p - 1) \o <<x>> \o SubSeq(sorted, p, Len(sorted))

\* x is placed in a list sorted by (a, b) => b.score - a.score behind
\* every element whose score is not lower than its own
insert(sorted, x) ==
  LET p == CHOOSE i \in 1..(Len(sorted) + 1) :
             /\ i = Len(sorted) + 1 \/ RatLess(sorted[i].score, x.score)
             /\ \A j \in 1..(i - 1) : ~RatLess(sorted[j].score, x.score)
  IN SubSeq(sorted, 1, p - 1) \o <<x>> \o SubSeq(sorted, p, Len(sorted))

\* .sort((a, b) => b.score - a.score): Array.prototype.sort is stable
RECURSIVE sort(_)
sort(s) ==
  IF s = <<>> THEN <<>>
  ELSE insert(sort(SubSeq(s, 1, Len(s) - 1)), s[Len(s)])

\* Array.prototype.slice(start, end) for 0 <= start and 0 <= end
slice(s, start, end) ==
  SubSeq(s, start + 1, IF end < Len(s) THEN end ELSE Len(s))

\* the TypeError of reduce on an empty array without initial value
ReduceError == [kind |-> "reduce", id |-> ""]

\* findSimilar(queryVector) of a store with the given lookups and
\* maxWeight: the map callback throws on the first document without
\* vectors, before anything is sorted
findSimilar(c, queryVector, lookups, maxWeight) ==
  IF \E i \in 1..Len(c) : c[i].vectors = <<>>
    THEN [threw |-> TRUE, error |-> ReduceError, results |-> <<>>]
    ELSE [threw |-> FALSE, error |-> NoError,
          results |-> slice(sort(scores(c, queryVector, maxWeight)),
                            0, lookups)]

\* the score of a document against several query vectors with a slip:
\* the per-query scores are added up and not divided
meanScore_sum(queryVectors, vectors, maxWeight) ==
  LET RECURSIVE total(_)
      total(k) ==
        IF k = 0 THEN Rat(0, 1)
        ELSE RatAdd(total(k - 1),
                    documentScore(queryVectors[k], vectors, maxWeight))
  IN total(Len(queryVectors))

\* the score of a document against several query vectors: the per-query
\* scores are averaged
meanScore(queryVectors, vectors, maxWeight) ==
  LET RECURSIVE total(_)
      total(k) ==
        IF k = 0 THEN Rat(0, 1)
        ELSE RatAdd(total(k - 1),
                    documentScore(queryVectors[k], vectors, maxWeight))
  IN RatDiv(total(Len(queryVectors)), Len(queryVectors))

\* findSimilar(query) of the revision that takes one vector or an array
\* of vectors
findSimilarAny(c, query, lookups, maxWeight) ==
  IF ~query.many
    THEN findSimilar(c, query.vectors[1], lookups, maxWeight)
  ELSE IF \E i \in 1..Len(c) : c[i].vectors = <<>>
    THEN [threw |-> TRUE, error |-> ReduceError, results |-> <<>>]
  ELSE [threw |-> FALSE, error |-> NoError,
        results |->
          slice(sort([i \in 1..Len(c) |->
                        [id |-> c[i].id,
                         score |-> meanScore(query.vectors, c[i].vectors,
                                             maxWeight)]]),
                0, lookups)]

\* r to the power of the natural number k
RECURSIVE RatPow(_, _)
RatPow(r, k) == IF k = 0 THEN Rat(1, 1) ELSE RatMul(RatPow(r, k - 1), r)

\* the values of queryBoostFactor that are searched with: the ends of the
\* range of the setting VectorStoreQueryBoostFactor, whose powers of a
\* fraction are fractions
BoostFactors == {1, 2}

\* the length-normalized similarity with a slip: the boost is applied
\* when the query vector is the longer one
normalizedSimilarity_boostLong(queryVector, vector, queryBoostFactor) ==
  LET cos == cosineSimilarity(queryVector, vector)
      normA == norm(queryVector)
      normB == norm(vector)
      min == IF normA < normB THEN normA ELSE normB
      max == IF normA < normB THEN normB ELSE normA
      boostExponent == IF normA > normB THEN queryBoostFactor ELSE 1
  IN RatMul(RatMul(cos, cos), RatPow(Rat(min, max), boostExponent))

\* the length-normalized similarity of a query vector and a vector of a
\* document: cosine squared x (min norm / max norm) ^ boostExponent
normalizedSimilarity(queryVector, vector, queryBoostFactor) ==
  LET cos == cosineSimilarity(queryVector, vector)
      normA == norm(queryVector)
      normB == norm(vector)
      min == IF normA < normB THEN normA ELSE normB
      max == IF normA < normB THEN normB ELSE normA
      boostExponent == IF normA < normB THEN queryBoostFactor ELSE 1
  IN RatMul(RatMul(cos, cos), RatPow(Rat(min, max), boostExponent))

\* the blended score of a document with at least one vector under the
\* length-normalized similarity
normalizedScore(queryVector, vectors, maxWeight, queryBoostFactor) ==
  LET sims == [i \in 1..Len(vectors) |->
                 normalizedSimilarity(queryVector, vectors[i],
                                      queryBoostFactor)]
      avgWeight == RatSub(Rat(1, 1), maxWeight)
  IN RatAdd(RatMul(maxSim(sims, Len(sims)), maxWeight),
            RatMul(avgSim(sims), avgWeight))

\* findSimilar(queryVector) of the revision whose store is constructed
\* with (lookups, maxWeight, queryBoostFactor)
findSimilarNormalized(c, queryVector, lookups, maxWeight, queryBoostFactor) ==
  IF \E i \in 1..Len(c) : c[i].vectors = <<>>
    THEN [threw |-> TRUE, error |-> ReduceError, results |-> <<>>]
    ELSE [threw |-> FALSE, error |-> NoError,
          results |->
            slice(sort([i \in 1..Len(c) |->
                          [id |-> c[i].id,
                           score |-> normalizedScore(queryVector,
                                                     c[i].vectors,
                                                     maxWeight,
                                                     queryBoostFactor)]]),
                  0, lookups)]

\* stats with a slip: chunkCount counts the documents
stats_perDocument(c, dim) ==
  [documentCount |-> size(c),
   vectorDimensions |-> dim,
   chunkCount |-> size(c),
   version |-> STORAGE_FORMAT_VERSION]

\* stats(): storageSize, the length of the JSON text, is left out
stats(c, dim) ==
  LET RECURSIVE totalChunks(_)
      totalChunks(k) ==
        IF k = 0 THEN 0 ELSE totalChunks(k - 1) + Len(c[k].vectors)
  IN [documentCount |-> size(c),
      vectorDimensions |-> dim,
      chunkCount |-> totalChunks(Len(c)),
      version |-> STORAGE_FORMAT_VERSION]

---------------------------------------------------------------------------
(* DocumentManager.calculateChunks and #tokenize (manager.js).  A text is *)
(* a sequence of characters, a token a sequence of characters, and token  *)
(* indices are the 0-based indices of the code.                           *)

\* a letter, a whitespace character and a punctuation character
Chars == {"a", " ", "."}

\* /\s|[.,!?]/.test(ch) for one character
IsBoundary(ch) == ch \in {" ", "."}

\* /\s|[.,!?]/.test(token)
test(token) == \E k \in 1..Len(token) : IsBoundary(token[k])

\* token.length >= 4
TokenLength == 4

\* the for loop of #tokenize from the k-th character on: the tokens pushed
\* and the token begun when it ends
RECURSIVE tokenLoop(_, _, _, _)
tokenLoop(text, k, token, toks) ==
  IF k > Len(text) THEN [tokens |-> toks, token |-> token]
  ELSE LET t == Append(token, text[k])
       IN IF Len(t) >= TokenLength \/ IsBoundary(text[k])
            THEN tokenLoop(text, k + 1, <<>>, Append(toks, t))
            ELSE tokenLoop(text, k + 1, t, toks)

\* tokenize with a slip: the token begun when the loop ends is dropped
tokenize_dropLast(text) == tokenLoop(text, 1, <<>>, <<>>).tokens

\* #tokenize
tokenize(text) ==
  LET r == tokenLoop(text, 1, <<>>, <<>>)
  IN IF Len(r.token) > 0 THEN Append(r.tokens, r.token) ELSE r.tokens

\* tokens[j] of the code
At(toks, j) == toks[j + 1]

\* while (start > 0 && !/\s|[.,!?]/.test(tokens[start - 1])) start--
RECURSIVE alignStart(_, _)
alignStart(toks, start) ==
  IF start > 0 /\ ~test(At(toks, start - 1))
    THEN alignStart(toks, start - 1)
    ELSE start

\* while (end < tokens.length && end > i && !/\s|[.,!?]/.test(tokens[end - 1]))
\*   end--
RECURSIVE alignEnd(_, _, _)
alignEnd(toks, from, end) ==
  IF end < Len(toks) /\ end > from /\ ~test(At(toks, end - 1))
    THEN alignEnd(toks, from, end - 1)
    ELSE end

\* .join('')
RECURSIVE join(_)
join(toks) ==
  IF toks = <<>> THEN <<>> ELSE Head(toks) \o join(Tail(toks))

\* chunkAt with a slip: the start is not moved back to a boundary
chunkAt_noAlignStart(toks, from, ChunkSize) ==
  LET start == from
      end == alignEnd(toks, from, from + ChunkSize)
  IN [window |-> from, start |-> start, end |-> end,
      string |-> join(slice(toks, start, end))]

\* the chunk of the window at token from: the string that is pushed, with
\* the window and the token range it was sliced from
chunkAt(toks, from, ChunkSize) ==
  LET start == alignStart(toks, from)
      end == alignEnd(toks, from, from + ChunkSize)
  IN [window |-> from, start |-> start, end |-> end,
      string |-> join(slice(toks, start, end))]

\* a word of nine letters
LongWord == [k \in 1..9 |-> "a"]

\* words of five, one, one and one letters
Sentence == <<"a", "a", "a", "a", "a", " ", "a", ".", "a">>

\* the texts that are chunked: every text of up to MaxTextLen characters,
\* and the two longer ones
Texts ==
  UNION { [1..n -> Chars] : n \in 0..MaxTextLen }
    \cup {LongWord, Sentence}

\* the options: ChunkOverlap from 0 up to ChunkSize
Options ==
  { o \in [ChunkSize : 1..MaxChunkSize, ChunkOverlap : 0..MaxChunkSize] :
      o.ChunkOverlap <= o.ChunkSize }

\* the chunks array remembers this many pushes; a call that returns pushes
\* fewer
MaxChunks == 10

\* no call of calculateChunks is in progress
NoChunking ==
  /\ pc = "none"
  /\ content = <<>>
  /\ options = [ChunkSize |-> 0, ChunkOverlap |-> 0]
  /\ tokens = <<>>
  /\ loopI = 0
  /\ chunks = <<>>

\* a journal page: uuid is a string or undefined, text an object with a
\* content or undefined, content a string, undefined or null
Page(uuid, type, text) ==
  [t |-> "object", uuid |-> uuid, type |-> type, text |-> text]

Uuid(id) == [t |-> "string", v |-> id]

Content(chars) == [t |-> "string", v |-> chars]

Text(c) == [t |-> "object", content |-> c]

NoText == [t |-> "undefined", content |-> [t |-> "undefined", v |-> <<>>]]

\* undefined where a page is expected
UndefinedDocument ==
  [t |-> "undefined", uuid |-> [t |-> "undefined", v |-> ""], type |-> "",
   text |-> NoText]

\* no operation of a manager is in progress; before is the store at the
\* start of the operation
NoOperation ==
  [op |-> "none", pc |-> "idle", document |-> UndefinedDocument,
   changed |-> UndefinedDocument, documents |-> <<>>, all |-> <<>>,
   chunks |-> <<>>, embedFailed |-> FALSE, threw |-> FALSE,
   before |-> [cache |-> EmptyMap, dimension |-> 0]]

\* there is no manager
NoManager ==
  /\ journal = <<>>
  /\ mgr = NoOperation
  /\ calls = <<>>

---------------------------------------------------------------------------
(* State machine *)

\* the argument of a search: one vector, or an array of vectors
Single(queryVector) == [many |-> FALSE, vectors |-> <<queryVector>>]

Many(queryVectors) == [many |-> TRUE, vectors |-> queryVectors]

NoQuery == [many |-> FALSE, vectors |-> <<>>]

NoCall ==
  [op |-> "none", id |-> "", threw |-> FALSE, error |-> NoError,
   dimension |-> 0, size |-> 0, had |-> FALSE,
   invalid |-> FALSE, wrongLength |-> FALSE, offender |-> FALSE,
   unchanged |-> TRUE, stored |-> FALSE, kept |-> TRUE, scheduled |-> 0,
   query |-> NoQuery, lookups |-> 0, maxWeight |-> Rat(0, 1),
   queryBoostFactor |-> 0, results |-> <<>>]

\* the description of a call op(id) with outcome r: ids are the ids the
\* call is about, invalid / wrongLength describe its argument, offender
\* says that the error names an invalid document of the argument, stored
\* that the mapping now holds the argument; dimension, size and had are
\* taken before the call
Call(op, id, r, ids, invalid, wrongLength, offender, stored) ==
  [op |-> op, id |-> id, threw |-> r.threw, error |-> r.error,
   dimension |-> dimension,
   size |-> size(cache),
   had |-> \E i \in ids : MapHas(cache, i),
   invalid |-> invalid,
   wrongLength |-> wrongLength,
   offender |-> offender,
   unchanged |-> r.cache = cache,
   stored |-> stored,
   kept |-> \A i \in Ids \ ids : SameEntry(cache, r.cache, i),
   scheduled |-> r.scheduled,
   query |-> NoQuery, lookups |-> 0, maxWeight |-> Rat(0, 1),
   queryBoostFactor |-> 0, results |-> <<>>]

\* the description of a search with outcome r on a store configured with
\* lookups and maxWeight
Search(op, query, lookups, maxWeight, r) ==
  [NoCall EXCEPT !.op = op, !.threw = r.threw, !.error = r.error,
                 !.dimension = dimension, !.size = size(cache),
                 !.query = query, !.lookups = lookups,
                 !.maxWeight = maxWeight, !.results = r.results]

\* new VectorStore(logger): field initialisers, then #loadFromStorage
Init ==
  /\ slot \in InitialSlots
  /\ cache = loadFromStorage(slot).cache
  /\ dimension = 0
  /\ log = loadFromStorage(slot).log
  /\ pending = 0
  /\ caller = "idle"
  /\ last = NoCall
  /\ NoChunking
  /\ NoManager

\* a timer or I/O callback starts: the microtask queue is empty
StartTask ==
  /\ caller = "idle"
  /\ pending = 0
  /\ caller' = "running"
  /\ UNCHANGED <<cache, dimension, slot, pending, log, last>>
  /\ UNCHANGED chunkVars
  /\ UNCHANGED managerVars

\* a continuation of the caller (the code after an await) starts as a
\* microtask, possibly between two queued flushes
StartContinuation ==
  /\ caller = "idle"
  /\ pending > 0
  /\ caller' = "running"
  /\ UNCHANGED <<cache, dimension, slot, pending, log, last>>
  /\ UNCHANGED chunkVars
  /\ UNCHANGED managerVars

\* the caller's synchronous run ends
Return ==
  /\ caller = "running"
  /\ caller' = "idle"
  /\ last' = NoCall
  /\ UNCHANGED <<cache, dimension, slot, pending, log>>
  /\ UNCHANGED chunkVars
  /\ UNCHANGED managerVars

\* Apply with a slip: the slot is written during the call
Apply_writeThrough(r, call) ==
  /\ cache' = r.cache
  /\ dimension' = r.dimension
  /\ pending' = pending + r.scheduled
  /\ last' = call
  /\ slot' = IF r.scheduled > 0 THEN saveToStorage(r.cache, slot) ELSE slot
  /\ UNCHANGED <<caller, log>>
  /\ UNCHANGED chunkVars
  /\ UNCHANGED managerVars

\* the effect of a mutating call with outcome r, described by call
Apply(r, call) ==
  /\ cache' = r.cache
  /\ dimension' = r.dimension
  /\ pending' = pending + r.scheduled
  /\ last' = call
  /\ UNCHANGED <<slot, caller, log>>
  /\ UNCHANGED chunkVars
  /\ UNCHANGED managerVars

CallAdd(document) ==
  /\ caller = "running"
  /\ pending < MaxPending
  /\ \E r \in {add(cache, dimension, document)} :
       Apply(r, Call("add", document.id, r, {document.id},
                     InvalidDocument(document, dimension),
                     dimension # 0 /\ HasWrongLength(document, dimension),
                     r.threw /\ r.error.id = document.id,
                     Holds(r.cache, document.id, document.vectors)))

CallAddBatch(documents) ==
  /\ caller = "running"
  /\ pending < MaxPending
  /\ \E r \in {addBatch(cache, dimension, documents)} :
       LET ids == { document.id : document \in DocumentsOf(documents) }
       IN Apply(r, Call("addBatch", "", r, ids,
                   InvalidBatch(documents, dimension),
                   /\ dimension # 0
                   /\ \E document \in DocumentsOf(documents) :
                        HasWrongLength(document, dimension),
                   /\ r.threw
                   /\ \E document \in DocumentsOf(documents) :
                        /\ r.error.id = document.id
                        /\ InvalidDocument(document, r.dimension),
                   \A id \in ids :
                     \E i \in 1..Len(documents) :
                       /\ documents[i].id = id
                       /\ \A j \in (i+1)..Len(documents) :
                            documents[j].id # id
                       /\ Holds(r.cache, id, documents[i].vectors)))

CallClear ==
  /\ caller = "running"
  /\ pending < MaxPending
  /\ \E r \in {clear(cache, dimension)} :
       Apply(r, Call("clear", "", r, Ids, FALSE, FALSE, FALSE, FALSE))

CallDelete(id) ==
  /\ caller = "running"
  /\ pending < MaxPending
  /\ \E r \in {delete(cache, dimension, id)} :
       Apply(r, Call("delete", id, r, {id}, FALSE, FALSE, FALSE, FALSE))

\* a queued () => this.#saveToStorage() runs and the write lands
Flush ==
  /\ caller = "idle"
  /\ pending > 0
  /\ pending' = pending - 1
  /\ slot' = saveToStorage(cache, slot)
  /\ UNCHANGED <<cache, dimension, caller, log, last>>
  /\ UNCHANGED chunkVars
  /\ UNCHANGED managerVars

\* FlushFault with a slip: the catch block swallows the error
FlushFault_silent ==
  /\ caller = "idle"
  /\ pending > 0
  /\ pending' = pending - 1
  /\ UNCHANGED <<cache, dimension, slot, caller, log, last>>
  /\ UNCHANGED chunkVars
  /\ UNCHANGED managerVars

\* a queued () => this.#saveToStorage() runs and localStorage.setItem
\* throws: the catch block reports it to the logger
FlushFault ==
  /\ caller = "idle"
  /\ pending > 0
  /\ pending' = pending - 1
  /\ log' = log \cup {"error saving vectors to storage"}
  /\ UNCHANGED <<cache, dimension, slot, caller, last>>
  /\ UNCHANGED chunkVars
  /\ UNCHANGED managerVars

\* a fresh store is constructed against the slot (with its own logger)
\* and takes the place of the previous one
Construct ==
  /\ caller = "running"
  /\ pending = 0
  /\ cache' = loadFromStorage(slot).cache
  /\ dimension' = 0
  /\ log' = loadFromStorage(slot).log
  /\ last' = [NoCall EXCEPT !.op = "construct"]
  /\ UNCHANGED <<slot, pending, caller>>
  /\ UNCHANGED chunkVars
  /\ UNCHANGED managerVars

Next ==
  \/ StartTask
  \/ StartContinuation
  \/ Return
  \/ \E document \in Documents : CallAdd(document)
  \/ \E documents \in Batches : CallAddBatch(documents)
  \/ CallClear
  \/ \E id \in Ids : CallDelete(id)
  \/ Flush
  \/ FlushFault
  \/ Construct

Spec == Init /\ [][Next]_vars

---------------------------------------------------------------------------
(* The store under search: constructed against a slot that holds          *)
(* documents, extended by add, and searched                               *)

SearchSlots ==
  { Record(STORAGE_FORMAT_VERSION, EmptyMap),
    Record(STORAGE_FORMAT_VERSION,
           <<Doc("doc1", <<VecX>>), Doc("doc2", <<VecY>>),
             Doc("doc3", <<VecZ>>)>>),
    Record(STORAGE_FORMAT_VERSION,
           <<Doc("doc3", <<VecP>>), Doc("doc2", <<VecX>>),
             Doc("doc1", <<VecX>>)>>) }

SearchInit ==
  /\ slot \in SearchSlots
  /\ cache = loadFromStorage(slot).cache
  /\ dimension = 0
  /\ log = loadFromStorage(slot).log
  /\ pending = 0
  /\ caller = "idle"
  /\ last = NoCall
  /\ NoChunking
  /\ NoManager

\* CallFindSimilar with a slip: the search schedules a flush
CallFindSimilar_flush(queryVector, lookups, maxWeight) ==
  /\ caller = "running"
  /\ \E r \in {findSimilar(cache, queryVector, lookups, maxWeight)} :
       last' = Search("findSimilar", Single(queryVector), lookups,
                      maxWeight, r)
  /\ pending' = IF pending < MaxPending THEN pending + 1 ELSE pending
  /\ UNCHANGED <<cache, dimension, slot, caller, log>>
  /\ UNCHANGED chunkVars
  /\ UNCHANGED managerVars

\* findSimilar(queryVector) on a store with the given lookups and
\* maxWeight
CallFindSimilar(queryVector, lookups, maxWeight) ==
  /\ caller = "running"
  /\ \E r \in {findSimilar(cache, queryVector, lookups, maxWeight)} :
       last' = Search("findSimilar", Single(queryVector), lookups,
                      maxWeight, r)
  /\ UNCHANGED <<cache, dimension, slot, pending, caller, log>>
  /\ UNCHANGED chunkVars
  /\ UNCHANGED managerVars

\* findSimilar(query) of the revision that takes one vector or an array
\* of vectors
CallFindSimilarAny(query, lookups, maxWeight) ==
  /\ caller = "running"
  /\ \E r \in {findSimilarAny(cache, query, lookups, maxWeight)} :
       last' = Search("findSimilarAny", query, lookups, maxWeight, r)
  /\ UNCHANGED <<cache, dimension, slot, pending, caller, log>>
  /\ UNCHANGED chunkVars
  /\ UNCHANGED managerVars

\* findSimilar(queryVector) on a store constructed with the default
\* lookups and maxWeight and the given queryBoostFactor
CallFindSimilarNormalized(queryVector, queryBoostFactor) ==
  /\ caller = "running"
  /\ \E r \in {findSimilarNormalized(cache, queryVector, DefaultLookups,
                                      DefaultMaxWeight,
                                      queryBoostFactor)} :
       last' = [Search("findSimilarNormalized", Single(queryVector),
                       DefaultLookups, DefaultMaxWeight, r)
                  EXCEPT !.queryBoostFactor = queryBoostFactor]
  /\ UNCHANGED <<cache, dimension, slot, pending, caller, log>>
  /\ UNCHANGED chunkVars
  /\ UNCHANGED managerVars

\* size(): the result is the one element of results
CallSize ==
  /\ caller = "running"
  /\ last' = [NoCall EXCEPT !.op = "size", !.dimension = dimension,
                            !.size = size(cache),
                            !.results = <<size(cache)>>]
  /\ UNCHANGED <<cache, dimension, slot, pending, caller, log>>
  /\ UNCHANGED chunkVars
  /\ UNCHANGED managerVars

\* stats(): the result is the one element of results
CallStats ==
  /\ caller = "running"
  /\ last' = [NoCall EXCEPT !.op = "stats", !.dimension = dimension,
                            !.size = size(cache),
                            !.results = <<stats(cache, dimension)>>]
  /\ UNCHANGED <<cache, dimension, slot, pending, caller, log>>
  /\ UNCHANGED chunkVars
  /\ UNCHANGED managerVars

SearchNext ==
  \/ StartTask
  \/ CallSize
  \/ CallStats
  \/ \E queryVector \in Queries, queryBoostFactor \in BoostFactors :
       CallFindSimilarNormalized(queryVector, queryBoostFactor)
  \/ \E document \in SearchDocuments : CallAdd(document)
  \/ \E queryVector \in Queries, lookups \in Lookups,
        maxWeight \in MaxWeights :
       CallFindSimilar(queryVector, lookups, maxWeight)
  \/ \E query \in { Single(q) : q \in Queries }
                     \cup { Many(qs) : qs \in QueryLists },
        lookups \in Lookups, maxWeight \in MaxWeights :
       CallFindSimilarAny(query, lookups, maxWeight)

SearchSpec == SearchInit /\ [][SearchNext]_vars

---------------------------------------------------------------------------
(* One call calculateChunks(content) of a manager with the given options *)

ChunkInit ==
  /\ cache = EmptyMap
  /\ dimension = 0
  /\ slot = Absent
  /\ pending = 0
  /\ caller = "idle"
  /\ log = {}
  /\ last = NoCall
  /\ pc = "call"
  /\ content \in Texts
  /\ options \in Options
  /\ tokens = <<>>
  /\ loopI = 0
  /\ chunks = <<>>
  /\ NoManager

\* const tokens = this.#tokenize(content); const chunks = []; let i = 0
Tokenize ==
  /\ pc = "call"
  /\ tokens' = tokenize(content)
  /\ chunks' = <<>>
  /\ loopI' = 0
  /\ pc' = "test"
  /\ UNCHANGED <<content, options>>
  /\ UNCHANGED storeVars
  /\ UNCHANGED managerVars

\* i < tokens.length holds: the body is entered
EnterWindow ==
  /\ pc = "test"
  /\ loopI < Len(tokens)
  /\ pc' = "body"
  /\ UNCHANGED <<content, options, tokens, loopI, chunks>>
  /\ UNCHANGED storeVars
  /\ UNCHANGED managerVars

\* PushChunk with a slip: the window advances by ChunkSize
PushChunk_noOverlap ==
  /\ pc = "body"
  /\ chunks' = IF Len(chunks) < MaxChunks
                 THEN Append(chunks,
                             chunkAt(tokens, loopI, options.ChunkSize))
                 ELSE chunks
  /\ loopI' = loopI + options.ChunkSize
  /\ pc' = "test"
  /\ UNCHANGED <<content, options, tokens>>
  /\ UNCHANGED storeVars
  /\ UNCHANGED managerVars

\* the loop body and i += ChunkSize - ChunkOverlap
PushChunk ==
  /\ pc = "body"
  /\ chunks' = IF Len(chunks) < MaxChunks
                 THEN Append(chunks,
                             chunkAt(tokens, loopI, options.ChunkSize))
                 ELSE chunks
  /\ loopI' = loopI + options.ChunkSize - options.ChunkOverlap
  /\ pc' = "test"
  /\ UNCHANGED <<content, options, tokens>>
  /\ UNCHANGED storeVars
  /\ UNCHANGED managerVars

\* i < tokens.length fails: return chunks
ReturnChunks ==
  /\ pc = "test"
  /\ ~(loopI < Len(tokens))
  /\ pc' = "done"
  /\ UNCHANGED <<content, options, tokens, loopI, chunks>>
  /\ UNCHANGED storeVars
  /\ UNCHANGED managerVars

ChunkNext ==
  \/ Tokenize
  \/ EnterWindow
  \/ PushChunk
  \/ ReturnChunks

ChunkSpec == ChunkInit /\ [][ChunkNext]_vars

\* the loop is scheduled like any running code: a step that can be taken
\* is taken
ChunkFairSpec == ChunkSpec /\ WF_vars(ChunkNext)

---------------------------------------------------------------------------
(* DocumentManager over the store (manager.js): rebuildVectorStore,       *)
(* updateDocumentVectors and deleteDocumentVectors.  One operation runs   *)
(* at a time; each action is one synchronous run of it, up to its next    *)
(* await, and starts when the caller is idle and the flushes queued       *)
(* before it have run (pending = 0); an operation starts when none is     *)
(* between two of its steps.  calls                                       *)
(* is the list of the calls the operation has made to the embedding       *)
(* client and to the store.                                               *)

\* the options of the manager: a window of two tokens, one of them shared
ManagerOptions == [ChunkSize |-> 2, ChunkOverlap |-> 1]

\* calculateChunks(content) as a function, for ChunkOverlap < ChunkSize
calculateChunks(text, opts) ==
  LET toks == tokenize(text)
      RECURSIVE windows(_)
      windows(i) ==
        IF ~(i < Len(toks)) THEN <<>>
        ELSE <<chunkAt(toks, i, opts.ChunkSize).string>>
               \o windows(i + opts.ChunkSize - opts.ChunkOverlap)
  IN windows(0)

\* #indexable(document) of a document that is not undefined
indexable(document) ==
  /\ document.type = "text"
  /\ document.text.t \notin {"null", "undefined"}
  /\ document.text.content.t \notin {"null", "undefined"}
  /\ Len(document.text.content.v) > 0

\* deepEquals(a, b) on pages: equal keys with deep-equal values
deepEquals(a, b) == a = b

\* client.embed(model, id, chunks) when it resolves: one vector per chunk
embed(id, chunkList) == Doc(id, [k \in 1..Len(chunkList) |-> VecA])

\* the journals of the game: entries with their pages
Journals ==
  { << <<Page(Uuid("doc1"), "text", Text(Content(<<"a", " ", "a">>))),
         Page(Uuid("doc2"), "text", Text(Content(<<"a">>))),
         Page(Uuid("doc4"), "image", NoText)>>,
       <<Page(Uuid("doc3"), "text", Text(Content(<<"a">>)))>> >>,
    << <<Page(Uuid("doc2"), "text", Text(Content(<<"a">>)))>>,
       <<Page(Uuid("doc4"), "text", Text(Content(<<>>))),
         Page(Uuid("doc1"), "text", Text(Content(<<"a">>)))>> >>,
    << <<Page(Uuid("doc4"), "image", NoText)>>, <<>> >> }

\* the pages the hooks are called with
HookPages ==
  { UndefinedDocument,
    Page(Uuid("doc1"), "text", Text(Content(<<"a">>))),
    Page(Uuid("doc1"), "text", Text(Content(<<"a", " ", "a">>))),
    Page(Uuid("doc1"), "text", Text(Content(<<>>))),
    Page(Uuid("doc1"), "text", Text([t |-> "null", v |-> <<>>])),
    Page(Uuid("doc1"), "image", NoText),
    Page([t |-> "undefined", v |-> ""], "text", Text(Content(<<"a">>))) }

\* game.journal.map(j => j.pages.contents).flat()
RECURSIVE flat(_)
flat(entries) ==
  IF entries = <<>> THEN <<>> ELSE Head(entries) \o flat(Tail(entries))

\* Array.prototype.filter(this.#indexable)
RECURSIVE filter(_)
filter(pages) ==
  IF pages = <<>> THEN <<>>
  ELSE IF indexable(Head(pages))
    THEN <<Head(pages)>> \o filter(Tail(pages))
  ELSE filter(Tail(pages))

\* fromUuid(id): the page of the journal with this uuid
fromUuid(id) ==
  CHOOSE page \in { flat(journal)[k] : k \in 1..Len(flat(journal)) } :
    page.uuid = id

\* a call the operation made
Made(fn, id, chunkList, documents) ==
  [fn |-> fn, id |-> id, chunks |-> chunkList, documents |-> documents]

\* the effect on the store of a store call with outcome r
StoreCall(r) ==
  /\ cache' = r.cache
  /\ dimension' = r.dimension
  /\ pending' = pending + r.scheduled
  /\ UNCHANGED <<slot, caller, log, last>>
  /\ UNCHANGED chunkVars

\* an operation op begins
Begin(op, document, changed) ==
  [NoOperation EXCEPT !.op = op, !.pc = "run", !.document = document,
                      !.changed = changed,
                      !.before = [cache |-> cache,
                                  dimension |-> dimension]]

\* rebuildVectorStore(): the documents are collected
RebuildVectorStore ==
  /\ caller = "idle"
  /\ pending = 0
  /\ mgr.pc \in {"idle", "done", "failed"}
  /\ mgr' = [Begin("rebuild", UndefinedDocument, UndefinedDocument)
               EXCEPT !.pc = "loop",
                      !.documents = filter(flat(journal))]
  /\ calls' = <<>>
  /\ UNCHANGED journal
  /\ UNCHANGED storeVars
  /\ UNCHANGED chunkVars

\* one iteration of the for loop up to the embed call: a document without
\* chunks is skipped
RebuildChunk ==
  /\ caller = "idle"
  /\ pending = 0
  /\ mgr.op = "rebuild"
  /\ mgr.pc = "loop"
  /\ mgr.documents # <<>>
  /\ LET doc == fromUuid(Head(mgr.documents).uuid)
         chunkList == IF indexable(doc)
                        THEN calculateChunks(doc.text.content.v,
                                             ManagerOptions)
                        ELSE <<>>
     IN IF chunkList = <<>>
          THEN /\ mgr' = [mgr EXCEPT !.documents = Tail(mgr.documents)]
               /\ calls' = calls
          ELSE /\ mgr' = [mgr EXCEPT !.pc = "embed",
                                     !.chunks = chunkList]
               /\ calls' = Append(calls,
                                  Made("embed",
                                       Head(mgr.documents).uuid.v,
                                       chunkList, <<>>))
  /\ UNCHANGED journal
  /\ UNCHANGED storeVars
  /\ UNCHANGED chunkVars

\* the embed call of the loop resolves: allDocumentVectors.push(vectors)
RebuildPush ==
  /\ caller = "idle"
  /\ pending = 0
  /\ mgr.op = "rebuild"
  /\ mgr.pc = "embed"
  /\ mgr' = [mgr EXCEPT !.pc = "loop",
                        !.documents = Tail(mgr.documents),
                        !.all = Append(mgr.all,
                                       embed(Head(mgr.documents).uuid.v,
                                             mgr.chunks))]
  /\ UNCHANGED <<journal, calls>>
  /\ UNCHANGED storeVars
  /\ UNCHANGED chunkVars

\* an embed call rejects: the operation rejects with it
EmbedFails ==
  /\ caller = "idle"
  /\ pending = 0
  /\ mgr.pc = "embed"
  /\ mgr' = [mgr EXCEPT !.pc = "failed", !.embedFailed = TRUE,
                        !.threw = TRUE]
  /\ UNCHANGED <<journal, calls>>
  /\ UNCHANGED storeVars
  /\ UNCHANGED chunkVars

\* RebuildClear with a slip: the store is cleared before the loop is over
RebuildClear_early ==
  /\ caller = "idle"
  /\ pending = 0
  /\ mgr.op = "rebuild"
  /\ mgr.pc = "loop"
  /\ StoreCall(clear(cache, dimension))
  /\ mgr' = [mgr EXCEPT !.pc = "addBatch"]
  /\ calls' = Append(calls, Made("clear", "", <<>>, <<>>))
  /\ UNCHANGED journal

\* the loop is over: await this.#store.clear()
RebuildClear ==
  /\ caller = "idle"
  /\ pending = 0
  /\ mgr.op = "rebuild"
  /\ mgr.pc = "loop"
  /\ mgr.documents = <<>>
  /\ StoreCall(clear(cache, dimension))
  /\ mgr' = [mgr EXCEPT !.pc = "addBatch"]
  /\ calls' = Append(calls, Made("clear", "", <<>>, <<>>))
  /\ UNCHANGED journal

\* await this.#store.addBatch(allDocumentVectors)
RebuildAddBatch ==
  /\ caller = "idle"
  /\ pending = 0
  /\ mgr.op = "rebuild"
  /\ mgr.pc = "addBatch"
  /\ \E r \in {addBatch(cache, dimension, mgr.all)} :
       /\ StoreCall(r)
       /\ mgr' = [mgr EXCEPT !.pc = IF r.threw THEN "failed" ELSE "done",
                             !.threw = r.threw]
  /\ calls' = Append(calls, Made("addBatch", "", <<>>, mgr.all))
  /\ UNCHANGED journal

\* updateDocumentVectors(document, changed) up to the embed call:
\* #indexable(undefined) throws on document.type, changed.text.content on
\* a changed page without text, and #tokenize on text.length of a content
\* that is undefined or null
UpdateDocumentVectors(document, changed) ==
  /\ caller = "idle"
  /\ pending = 0
  /\ mgr.pc \in {"idle", "done", "failed"}
  /\ LET begun == Begin("update", document, changed)
         returned == [begun EXCEPT !.pc = "done"]
         thrown == [begun EXCEPT !.pc = "failed", !.threw = TRUE]
     IN IF document.t = "undefined" THEN mgr' = thrown /\ calls' = <<>>
        ELSE IF ~indexable(document)
          THEN mgr' = returned /\ calls' = <<>>
        ELSE IF deepEquals(document, changed)
          THEN mgr' = returned /\ calls' = <<>>
        ELSE IF changed.t = "undefined"
                  \/ changed.text.t \in {"null", "undefined"}
                  \/ changed.text.content.t \in {"null", "undefined"}
          THEN mgr' = thrown /\ calls' = <<>>
        ELSE \E chunkList \in {calculateChunks(changed.text.content.v,
                                               ManagerOptions)} :
               IF chunkList = <<>>
                 THEN mgr' = returned /\ calls' = <<>>
                 ELSE /\ mgr' = [begun EXCEPT !.pc = "embed",
                                              !.chunks = chunkList]
                      /\ calls' = <<Made("embed", changed.uuid.v,
                                         chunkList, <<>>)>>
  /\ UNCHANGED journal
  /\ UNCHANGED storeVars
  /\ UNCHANGED chunkVars

\* the embed call of the update resolves: await this.#store.add(vectors)
UpdateAdd ==
  /\ caller = "idle"
  /\ pending = 0
  /\ mgr.op = "update"
  /\ mgr.pc = "embed"
  /\ \E vectors \in {embed(mgr.changed.uuid.v, mgr.chunks)} :
       /\ \E r \in {add(cache, dimension, vectors)} :
            /\ StoreCall(r)
            /\ mgr' = [mgr EXCEPT
                         !.pc = IF r.threw THEN "failed" ELSE "done",
                         !.threw = r.threw]
       /\ calls' = Append(calls, Made("add", vectors.id, <<>>,
                                      <<vectors>>))
  /\ UNCHANGED journal

\* deleteDocumentVectors(document, {id}) that deletes nothing
DeleteNothing(document) ==
  /\ caller = "idle"
  /\ pending = 0
  /\ mgr.pc \in {"idle", "done", "failed"}
  /\ \/ document.t = "undefined"
     \/ ~indexable(document)
     \/ document.uuid.t # "string"
  /\ mgr' = [Begin("delete", document, UndefinedDocument)
               EXCEPT !.pc = "done"]
  /\ calls' = <<>>
  /\ UNCHANGED journal
  /\ UNCHANGED storeVars
  /\ UNCHANGED chunkVars

\* deleteDocumentVectors(document, {id}) that reaches
\* await this.#store.delete(document.uuid)
DeleteDocumentVectors(document) ==
  /\ caller = "idle"
  /\ pending = 0
  /\ mgr.pc \in {"idle", "done", "failed"}
  /\ document.t # "undefined"
  /\ indexable(document)
  /\ document.uuid.t = "string"
  /\ StoreCall(delete(cache, dimension, document.uuid.v))
  /\ mgr' = [Begin("delete", document, UndefinedDocument)
               EXCEPT !.pc = "done"]
  /\ calls' = <<Made("delete", document.uuid.v, <<>>, <<>>)>>
  /\ UNCHANGED journal

\* the stores a manager is given
ManagerSlots ==
  { Absent,
    Record(STORAGE_FORMAT_VERSION,
           <<Doc("doc1", <<VecA>>), Doc("doc5", <<VecA, VecA>>)>>) }

ManagerInit ==
  /\ slot \in ManagerSlots
  /\ cache = loadFromStorage(slot).cache
  /\ dimension = 0
  /\ log = loadFromStorage(slot).log
  /\ pending = 0
  /\ caller = "idle"
  /\ last = NoCall
  /\ NoChunking
  /\ journal \in Journals
  /\ mgr = NoOperation
  /\ calls = <<>>

ManagerNext ==
  \/ RebuildVectorStore
  \/ RebuildChunk
  \/ RebuildPush
  \/ EmbedFails
  \/ RebuildClear
  \/ RebuildAddBatch
  \/ \E document \in HookPages, changed \in HookPages :
       UpdateDocumentVectors(document, changed)
  \/ UpdateAdd
  \/ \E document \in HookPages : DeleteNothing(document)
  \/ \E document \in HookPages : DeleteDocumentVectors(document)
  \/ Flush

ManagerSpec == ManagerInit /\ [][ManagerNext]_vars

---------------------------------------------------------------------------
(* Properties *)

Adds == {"add", "addBatch"}

Mutations == {"add", "addBatch", "delete", "clear"}

\* what a store freshly constructed against the slot s holds
Fresh(s) == loadFromStorage(s).cache

\* C1: once the dimension of a store is fixed (non-zero), every add and
\* addBatch holding a vector of another length throws an error naming an
\* offending document and leaves the dimension as it was, and no step of
\* the store (add, addBatch, delete, clear, a flush) changes the dimension.
C1_DimensionLock ==
  /\ [](last.op \in Adds /\ last.dimension # 0 /\ last.wrongLength =>
          /\ last.threw
          /\ last.offender
          /\ dimension = last.dimension)
  /\ [][dimension # 0 /\ ~Construct => dimension' = dimension]_vars

\* C1 witness: in a store of dimension 1 holding a document, an add was
\* rejected for its dimension and the dimension is still 1.
C1_Witness ==
  /\ last.op = "add"
  /\ last.threw
  /\ last.error.kind = "dimension"
  /\ last.dimension = 1
  /\ dimension = 1
  /\ size(cache) > 0

\* C2: an addBatch holding an invalid document throws, and an addBatch
\* that throws leaves the whole mapping as it was: no document of the
\* batch is written and the entries of the store keep their vector lists.
C2_AddBatchAllOrNothing ==
  last.op = "addBatch" =>
    /\ last.invalid => last.threw
    /\ last.threw => last.unchanged

\* C2 witness: an addBatch on a store without dimension failed on a
\* dimension mismatch, that is after a valid document of the same batch,
\* and the mapping is as before.
C2_Witness ==
  /\ last.op = "addBatch"
  /\ last.threw
  /\ last.error.kind = "dimension"
  /\ last.dimension = 0
  /\ last.unchanged

\* C3: an add of an invalid document throws, and an add that throws leaves
\* the mapping as it was and queues no flush.
C3_FailingAddNoEffect ==
  last.op = "add" =>
    /\ last.invalid => last.threw
    /\ last.threw => last.unchanged /\ last.scheduled = 0

\* C3 witness: an add for an id the store holds was rejected for a
\* non-numeric vector.
C3_Witness ==
  /\ last.op = "add"
  /\ last.threw
  /\ last.error.kind = "type"
  /\ last.had
  /\ last.scheduled = 0

\* C4: an add or addBatch that throws leaves the remembered dimension as
\* it was before the call.
C4_RejectionKeepsDimension ==
  last.op \in Adds /\ last.threw => dimension = last.dimension

\* C5: in every state all vectors of the mapping have the length the store
\* remembers as its dimension.
C5_UniformDimension ==
  \A i \in 1..Len(cache) :
    \A vector \in VectorsOf(cache[i].vectors) :
      Len(vector.elems) = dimension

\* C6: after a successful add the mapping holds the document's vectors
\* under its id, the other ids map to what they mapped to, and the size
\* grew by one if the id was absent and not at all if it was present.
C6_AddEffect ==
  last.op = "add" /\ ~last.threw =>
    /\ last.stored
    /\ last.kept
    /\ size(cache) = last.size + (IF last.had THEN 0 ELSE 1)

\* C6 witness: a successful add overwrote an id while another id was held.
C6_Witness ==
  /\ last.op = "add"
  /\ ~last.threw
  /\ last.had
  /\ last.stored
  /\ size(cache) = 2

C8_Clear ==
  /\ [](last.op = "clear" =>
          /\ ~last.threw
          /\ size(cache) = 0
          /\ last.scheduled = 1)
  /\ [][Flush /\ size(cache) = 0 => size(Fresh(slot')) = 0]_vars

\* C8 witness: clear() was called on an empty store.
C8_Witness ==
  /\ last.op = "clear"
  /\ last.size = 0
  /\ size(cache) = 0
  /\ ~last.threw

\* C9: when a flush has run, a fresh store constructed against the slot
\* has the size of the original store and holds for each id the vector
\* list the original store holds.
C9_RoundTrip ==
  [][Flush =>
       /\ size(Fresh(slot')) = size(cache)
       /\ \A id \in Ids : SameEntry(cache, Fresh(slot'), id)]_vars

\* C10: every successful mutation queues one flush, and when the last
\* queued flush has run without a storage fault the persisted record has
\* the current format version and its entries equal the mapping.
C10_EventualDurability ==
  /\ [](last.op \in Mutations /\ ~last.threw => last.scheduled = 1)
  /\ [][Flush /\ pending' = 0 =>
          /\ slot'.kind = "json"
          /\ slot'.hasVersion
          /\ slot'.formatVersion = STORAGE_FORMAT_VERSION
          /\ slot'.hasEntries
          /\ slot'.entries = cache]_vars

\* C11: a storage fault during a flush is not visible to the caller of the
\* mutation: when it happens the caller's run has returned, the fault is
\* reported to the logger's error method, the mapping, the dimension and
\* the slot stay as they were, and a mutation made after a fault still
\* queues its flush, which can run.
C11_FlushFaultContained ==
  /\ [][FlushFault =>
          /\ caller = "idle" /\ caller' = "idle"
          /\ last = NoCall /\ last' = NoCall
          /\ cache' = cache
          /\ dimension' = dimension
          /\ slot' = slot
          /\ "error saving vectors to storage" \in log']_vars
  /\ [](/\ "error saving vectors to storage" \in log
        /\ last.op \in Mutations
        /\ ~last.threw
        => last.scheduled = 1 /\ pending > 0)
  /\ []("error saving vectors to storage" \in log /\ caller = "idle"
          /\ pending > 0 => ENABLED Flush)

\* C11 witness: after a storage fault was reported, a successful add
\* queued a flush on a store that holds its document.
C11_Witness ==
  /\ "error saving vectors to storage" \in log
  /\ last.op = "add"
  /\ ~last.threw
  /\ last.scheduled = 1
  /\ last.stored
  /\ pending > 0

\* C12: construction does not throw; against a slot that is absent, holds
\* malformed JSON or holds a record without entries the constructed store
\* has an empty mapping and an error was reported to the logger; in every
\* case the mapping is empty or holds all entries of the slot.
C12_ConstructionNeverThrows ==
  last.op = "construct" =>
    /\ ~last.threw
    /\ dimension = 0
    /\ slot.kind # "json" \/ ~slot.hasEntries =>
         /\ cache = EmptyMap
         /\ "error loading vectors from storage" \in log
    /\ cache = EmptyMap \/ (slot.kind = "json" /\ cache = slot.entries)

\* C12 witness: a store was constructed against a slot holding malformed
\* JSON and is empty, with the fault reported.
C12_Witness ==
  /\ last.op = "construct"
  /\ slot.kind = "malformed"
  /\ cache = EmptyMap
  /\ "error loading vectors from storage" \in log

\* the ids of a result list
ResultIds(results) == { results[k].id : k \in 1..Len(results) }

\* the highest of the similarities of queryVector to the vectors
BestSimilarity(queryVector, vectors) ==
  CHOOSE m \in { cosineSimilarity(queryVector, v) : v \in VectorsOf(vectors) } :
    \A v \in VectorsOf(vectors) :
      ~RatLess(m, cosineSimilarity(queryVector, v))

\* the mean of the similarities of queryVector to the vectors
MeanSimilarity(queryVector, vectors) ==
  RatDiv(sumSim(similarities(queryVector, vectors), Len(vectors)),
         Len(vectors))

\* maxWeight x best + (1 - maxWeight) x mean
BlendedScore(queryVector, vectors, maxWeight) ==
  RatAdd(RatMul(maxWeight, BestSimilarity(queryVector, vectors)),
         RatMul(RatSub(Rat(1, 1), maxWeight),
                MeanSimilarity(queryVector, vectors)))

\* C13: findSimilar does not throw and returns min(lookups, size())
\* results, each an {id, score} pair for a stored id, no id twice, in
\* non-increasing order of score, and no stored document that was left out
\* has a score above the lowest returned one; on an empty store the result
\* is the empty list.
C13_TopLookups ==
  last.op = "findSimilar" =>
    /\ ~last.threw
    /\ Len(last.results) =
         (IF last.lookups < size(cache) THEN last.lookups ELSE size(cache))
    /\ \A k \in 1..Len(last.results) :
         /\ DOMAIN last.results[k] = {"id", "score"}
         /\ MapHas(cache, last.results[k].id)
         /\ \A j \in 1..Len(last.results) :
              last.results[j].id = last.results[k].id => j = k
         /\ k < Len(last.results) =>
              ~RatLess(last.results[k].score, last.results[k + 1].score)
    /\ \A id \in MapKeys(cache) \ ResultIds(last.results) :
         ~RatLess(last.results[Len(last.results)].score,
                  documentScore(last.query.vectors[1], MapGet(cache, id),
                                last.maxWeight))

\* C14: documents of equal score appear in the iteration order of the
\* mapping, among the results and at the cut after lookups results, and an
\* add for an id the mapping holds leaves the id at its position.
C14_StableTies ==
  /\ [](last.op = "findSimilar" /\ ~last.threw =>
          /\ \A a, b \in 1..Len(last.results) :
               a < b /\ last.results[a].score = last.results[b].score =>
                 MapIndex(cache, last.results[a].id)
                   < MapIndex(cache, last.results[b].id)
          /\ \A id \in MapKeys(cache) \ ResultIds(last.results) :
               \A k \in 1..Len(last.results) :
                 documentScore(last.query.vectors[1], MapGet(cache, id),
                               last.maxWeight) = last.results[k].score =>
                   MapIndex(cache, last.results[k].id) < MapIndex(cache, id))
  /\ [][last'.op = "add" /\ ~last'.threw /\ MapHas(cache, last'.id) =>
          MapIndex(cache', last'.id) = MapIndex(cache, last'.id)]_vars

\* C14 witness: a search left out a document whose score equals the score
\* of the last returned one, on a store in which adds have overwritten ids
\* of the constructed mapping and added none.
C14_Witness ==
  /\ last.op = "findSimilar"
  /\ ~last.threw
  /\ Len(last.results) >= 1
  /\ cache # slot.entries
  /\ MapKeys(cache) = MapKeys(slot.entries)
  /\ \E id \in MapKeys(cache) \ ResultIds(last.results) :
       documentScore(last.query.vectors[1], MapGet(cache, id),
                     last.maxWeight)
         = last.results[Len(last.results)].score

\* C15: the score of a returned document is maxWeight times the highest
\* similarity of the query to its vectors plus (1 - maxWeight) times the
\* mean of these similarities over all its vectors; for a document of one
\* vector it is the similarity to that vector.
C15_BlendedScore ==
  last.op = "findSimilar" /\ ~last.threw =>
    \A k \in 1..Len(last.results) :
      LET vectors == MapGet(cache, last.results[k].id)
      IN /\ last.results[k].score =
              BlendedScore(last.query.vectors[1], vectors, last.maxWeight)
         /\ Len(vectors) = 1 =>
              last.results[k].score =
                cosineSimilarity(last.query.vectors[1], vectors[1])

\* C15 witness: a returned document has two vectors of different
\* similarity to the query, and another one has a single vector.
C15_Witness ==
  /\ last.op = "findSimilar"
  /\ ~last.threw
  /\ \E k \in 1..Len(last.results) :
       LET vectors == MapGet(cache, last.results[k].id)
       IN /\ Len(vectors) = 2
          /\ cosineSimilarity(last.query.vectors[1], vectors[1])
               # cosineSimilarity(last.query.vectors[1], vectors[2])
  /\ \E k \in 1..Len(last.results) :
       Len(MapGet(cache, last.results[k].id)) = 1

C17_StatsConsistent ==
  \E s \in {stats(cache, dimension)} :
    /\ s.documentCount = size(cache)
    /\ s.chunkCount =
         Cardinality(UNION { { <<i, j>> : j \in 1..Len(cache[i].vectors) } :
                             i \in 1..Len(cache) })
    /\ s.version = 1
    /\ last.op = "construct" => s.vectorDimensions = 0
    /\ last.op \in Adds /\ last.dimension # 0 =>
         s.vectorDimensions = last.dimension
    /\ /\ last.op = "add"
       /\ ~last.threw
       /\ last.dimension = 0
       /\ MapGet(cache, last.id) # <<>>
       => s.vectorDimensions = Len(MapGet(cache, last.id)[1].elems)
    /\ /\ last.op = "add"
       /\ ~last.threw
       /\ last.dimension = 0
       /\ last.size = 0
       /\ Len(MapGet(cache, last.id)) = 2
       => s = [documentCount |-> 1,
               chunkCount |-> 2,
               vectorDimensions |-> Len(MapGet(cache, last.id)[1].elems),
               version |-> 1]

\* C17 witness: a document of two vectors was added to an empty store
\* without dimension, and stats() reports one document of two chunks.
C17_Witness ==
  /\ last.op = "add"
  /\ ~last.threw
  /\ last.dimension = 0
  /\ last.size = 0
  /\ stats(cache, dimension) =
       [documentCount |-> 1, chunkCount |-> 2, vectorDimensions |-> 1,
        version |-> 1]

\* C18: every call of the chunker returns, for every text and every pair
\* of options, ChunkOverlap equal to ChunkSize included.
C18_Terminates == <>(pc = "done")

\* C19: the tokens are a partition of the text: each has 1 to 4
\* characters, a whitespace or punctuation character is the last character
\* of its token, a token of fewer than 4 characters ends with such a
\* character or is the last token, and the tokens joined give the text.
C19_TokenizationRule ==
  pc # "call" =>
    /\ \A t \in 1..Len(tokens) :
         /\ Len(tokens[t]) \in 1..4
         /\ \A k \in 1..Len(tokens[t]) :
              IsBoundary(tokens[t][k]) => k = Len(tokens[t])
         /\ Len(tokens[t]) < 4 =>
              \/ IsBoundary(tokens[t][Len(tokens[t])])
              \/ t = Len(tokens)
    /\ join(tokens) = content

\* C19 witness: a text was split into a token of 4 letters, a token that
\* ends with a boundary character, and a shorter last token.
C19_Witness ==
  /\ pc = "done"
  /\ \E t \in 1..Len(tokens) : Len(tokens[t]) = 4 /\ ~test(tokens[t])
  /\ \E t \in 1..Len(tokens) : Len(tokens[t]) \in 2..3 /\ test(tokens[t])
  /\ Len(tokens[Len(tokens)]) < 4
  /\ ~test(tokens[Len(tokens)])

\* C20: with 0 <= ChunkOverlap < ChunkSize every chunk starts at the
\* beginning of the text or right after a token that ends with a boundary
\* character, and ends at the end of the text or right after such a token.
C20_BoundaryAligned ==
  options.ChunkOverlap < options.ChunkSize =>
    \A c \in 1..Len(chunks) :
      /\ \/ chunks[c].start = 0
         \/ test(At(tokens, chunks[c].start - 1))
      /\ \/ chunks[c].end >= Len(tokens)
         \/ chunks[c].end > 0 /\ test(At(tokens, chunks[c].end - 1))

\* C24: when add, addBatch or clear has returned the mapping holds the
\* mutation (the documents are stored, the mapping is empty) while the slot
\* is as it was: the slot does not change during the caller's run, it is
\* changed only by a queued flush, which runs when the caller is idle, and
\* no timer or I/O callback starts while a flush is queued.
C24_DeferredPersistence ==
  /\ [](last.op \in Adds /\ ~last.threw => last.stored)
  /\ [](last.op = "clear" => size(cache) = 0)
  /\ [][caller = "running" => slot' = slot]_vars
  /\ [][slot' # slot => Flush /\ caller = "idle" /\ pending > 0]_vars
  /\ [][StartTask => pending = 0]_vars

\* C24 witness: an add has returned, the mapping holds its document, and
\* the slot does not hold the serialised mapping yet.
C24_Witness ==
  /\ last.op = "add"
  /\ ~last.threw
  /\ last.stored
  /\ pending > 0
  /\ slot # stringify(cache)

\* C25: a flush that writes leaves in the slot the serialisation of the
\* mapping as it is when the flush runs; a flush that finds the slot
\* holding this serialisation leaves it as it is, so flushes queued by
\* several mutations all write the same record; and when the last queued
\* flush has written, the slot holds the serialisation of the current
\* mapping.
C25_LastWriteWins ==
  /\ [][Flush => cache' = cache /\ slot' = stringify(cache)]_vars
  /\ [][Flush /\ slot = stringify(cache) => slot' = slot]_vars
  /\ [][Flush /\ pending' = 0 => slot' = stringify(cache')]_vars

\* C25 witness: two documents are in the mapping, one of the queued
\* flushes has written both and another flush is still queued.
C25_Witness ==
  /\ caller = "idle"
  /\ pending = 1
  /\ size(cache) = 2
  /\ slot = stringify(cache)

\* C26: when a store is constructed against a record whose formatVersion
\* is present and is not the supported version, a debug message is sent
\* and the entries of the record are not loaded as they are; the mapping
\* holds the entries of the record unchanged only when the stored version
\* is the supported one.
C26_VersionHandling ==
  last.op = "construct" /\ slot.kind = "json" /\ slot.hasEntries
    /\ slot.entries # EmptyMap =>
    /\ slot.hasVersion /\ slot.formatVersion # STORAGE_FORMAT_VERSION =>
         /\ "found vector version mismatch" \in log
         /\ cache # slot.entries
    /\ cache = slot.entries =>
         slot.hasVersion /\ slot.formatVersion = STORAGE_FORMAT_VERSION

\* C27: with 0 <= ChunkOverlap < ChunkSize and s = ChunkSize -
\* ChunkOverlap, the c-th chunk comes from the window opened at token
\* (c - 1) * s, which is below the token count T, and the call returns
\* ceil(T / s) chunks: none for the empty text, and for a text of 1 to s
\* tokens one chunk that is the whole text.
C27_WindowStepping ==
  options.ChunkOverlap < options.ChunkSize =>
    LET s == options.ChunkSize - options.ChunkOverlap
        T == Len(tokens)
    IN /\ \A c \in 1..Len(chunks) :
            /\ chunks[c].window = (c - 1) * s
            /\ chunks[c].window < T
       /\ pc = "done" =>
            /\ Len(chunks) = (T + s - 1) \div s
            /\ content = <<>> => chunks = <<>>
            /\ T \in 1..s =>
                 Len(chunks) = 1 /\ chunks[1].string = content

\* C27 witness: a call with an overlap returned three chunks.
C27_Witness ==
  /\ pc = "done"
  /\ options.ChunkOverlap > 0
  /\ options.ChunkOverlap < options.ChunkSize
  /\ Len(chunks) = 3

\* C28: with 0 <= ChunkOverlap < ChunkSize the chunks of a returned call
\* on a non-empty text cover the tokens: the first chunk starts at token
\* 0, each chunk starts at or before the end of the chunk before it, the
\* last chunk ends at or after the last token, and every token lies in the
\* range of a chunk.
C28_Coverage ==
  pc = "done" /\ options.ChunkOverlap < options.ChunkSize
    /\ Len(tokens) > 0 =>
    /\ chunks[1].start = 0
    /\ \A c \in 2..Len(chunks) : chunks[c].start <= chunks[c - 1].end
    /\ chunks[Len(chunks)].end >= Len(tokens)
    /\ \A t \in 0..(Len(tokens) - 1) :
         \E c \in 1..Len(chunks) :
           chunks[c].start <= t /\ t < chunks[c].end

\* C28 witness: in a returned call the end of a chunk was moved back to a
\* boundary inside the text and the next chunk starts before its window.
C28_Witness ==
  /\ pc = "done"
  /\ options.ChunkOverlap < options.ChunkSize
  /\ \E c \in 2..Len(chunks) :
       /\ chunks[c - 1].end < chunks[c - 1].window + options.ChunkSize
       /\ chunks[c - 1].end < Len(tokens)
       /\ chunks[c].start < chunks[c].window

\* C29: a call of findSimilar, size or stats leaves the mapping, the
\* remembered dimension and the persisted slot as they were and schedules
\* no flush; size and stats report the mapping as it is; and a findSimilar
\* call that follows a findSimilar call with the same query on a store
\* with the same lookups and maxWeight returns what that call returned.
C29_ReadsArePure ==
  /\ [][caller = "running"
        /\ last'.op \in {"findSimilar", "size", "stats"} =>
          /\ cache' = cache
          /\ dimension' = dimension
          /\ slot' = slot
          /\ pending' = pending]_vars
  /\ [](last.op = "size" => last.results = <<size(cache)>>)
  /\ [](last.op = "stats" => last.results[1].documentCount = size(cache))
  /\ [][/\ last.op = "findSimilar"
        /\ last'.op = "findSimilar"
        /\ last'.query = last.query
        /\ last'.lookups = last.lookups
        /\ last'.maxWeight = last.maxWeight
        => /\ last'.threw = last.threw
           /\ last'.results = last.results]_vars

\* C29 witness: a search of a store of three documents returned two
\* results while a flush scheduled by an earlier add is still pending.
C29_Witness ==
  /\ last.op = "findSimilar"
  /\ ~last.threw
  /\ Len(last.results) = 2
  /\ size(cache) = 3
  /\ pending > 0

\* C30: every document of the mapping has at least one vector, and a
\* findSimilar call does not throw.
C30_NonEmptyVectorLists ==
  /\ \A i \in 1..Len(cache) : cache[i].vectors # <<>>
  /\ last.op = "findSimilar" => ~last.threw

C21_RebuildOrder ==
  mgr.op = "rebuild" =>
    LET IndexablePages == filter(flat(journal))
        N == Len(IndexablePages)
        Count(fn) == Cardinality({ k \in 1..Len(calls) : calls[k].fn = fn })
    IN /\ \A k \in 1..Len(calls) :
            /\ calls[k].fn \in {"embed", "clear", "addBatch"}
            /\ calls[k].fn = "embed" =>
                 /\ k <= N
                 /\ calls[k].id = IndexablePages[k].uuid.v
                 /\ calls[k].chunks =
                      calculateChunks(IndexablePages[k].text.content.v,
                                      ManagerOptions)
            /\ calls[k].fn = "clear" =>
                 /\ k = N + 1
                 /\ Len(mgr.all) = N
            /\ calls[k].fn = "addBatch" =>
                 /\ k = N + 2
                 /\ calls[k - 1].fn = "clear"
                 /\ Len(calls[k].documents) = N
                 /\ \A i \in 1..N :
                      /\ calls[k].documents[i].id = calls[i].id
                      /\ Len(calls[k].documents[i].vectors) =
                           Len(calls[i].chunks)
       /\ mgr.pc = "done" =>
            /\ Len(calls) = N + 2
            /\ Count("clear") = 1
            /\ Count("addBatch") = 1
       /\ mgr.embedFailed =>
            /\ Count("clear") = 0
            /\ Count("addBatch") = 0
            /\ cache = mgr.before.cache
            /\ dimension = mgr.before.dimension
            /\ pending = 0

\* C21 witness: a rebuild over a journal with three indexable pages and
\* an image page returned, and the store, which held other documents,
\* holds the three pages.
C21_Witness ==
  /\ mgr.op = "rebuild"
  /\ mgr.pc = "done"
  /\ Len(flat(journal)) = 4
  /\ Len(calls) = 5
  /\ mgr.before.cache # EmptyMap
  /\ MapKeys(cache) = {"doc1", "doc2", "doc3"}

\* C22: an update that is over has made no embed and no add call when
\* there was nothing to index, and otherwise, unless its embed call
\* failed, exactly one add call; a delete that is over has made no call
\* when there was nothing to delete and otherwise the one call
\* delete(uuid).
C22_NoCallWithoutContent ==
  LET NothingToIndex ==
        \/ mgr.document.t = "undefined"
        \/ ~indexable(mgr.document)
        \/ mgr.document = mgr.changed
        \/ /\ mgr.changed.t # "undefined"
           /\ mgr.changed.text.t = "object"
           /\ mgr.changed.text.content.t = "string"
           /\ calculateChunks(mgr.changed.text.content.v,
                              ManagerOptions) = <<>>
      NothingToDelete ==
        \/ mgr.document.t = "undefined"
        \/ ~indexable(mgr.document)
        \/ mgr.document.uuid.t # "string"
      addCalls == { k \in 1..Len(calls) : calls[k].fn = "add" }
  IN /\ mgr.op = "update" /\ mgr.pc \in {"done", "failed"} =>
          /\ NothingToIndex => calls = <<>>
          /\ ~NothingToIndex /\ ~mgr.embedFailed =>
               Cardinality(addCalls) = 1
     /\ mgr.op = "delete" /\ mgr.pc \in {"done", "failed"} =>
          /\ NothingToDelete => calls = <<>>
          /\ ~NothingToDelete =>
               calls = <<Made("delete", mgr.document.uuid.v, <<>>, <<>>)>>

=============================================================================
